---- MODULE Spec2Model ----
(***************************************************************************)
(* Sneck: the local mirror of a Nextcloud Deck (Deck.py) and the two       *)
(* worker threads that poll it and wait for the next due card              *)
(* (DeckManager.py).                                                       *)
(*                                                                         *)
(* A Python dict is modelled as a sequence of records in insertion order,  *)
(* each record carrying its key in the field id.  Of a node's attributes   *)
(* the model keeps the ETag (tag) and, for a card, the due time (due).     *)
(* Object identity is kept relative to the last operation: the field new   *)
(* of a node says that the instance was constructed by the last operation; *)
(* a node whose new is FALSE is the instance that was there before it.     *)
(***************************************************************************)
EXTENDS Integers, Sequences, FiniteSets, TLC

VARIABLES
    boards,     \* Deck.__boards: dict id -> DeckBoard
    events,     \* Deck.__events: list of DeckCard
    snap,       \* what the server answers: the list of boards of 'boards?details=1'
    prev,       \* Deck.__boards as it was before the last operation
    prevEvents, \* Deck.__events as it was before the last operation
    last,       \* the last operation on the Deck and how it ended
    now,        \* the wall clock, datetime.now(timezone.utc)
    pcMain,     \* where DeckManager.__init__ is
    pcUpdate,   \* where the update thread (DeckManager.__update) is
    pcEvents,   \* where the events thread (DeckManager.__events) is
    notifyLock, \* the thread that holds DeckManager.__notify_lock
    armed,      \* the due time the events thread waits for, NoDue when none
    delay,      \* the timeout the events thread has computed, NoDelay when none
    fired,      \* the cards the callback was called with, in order
    notified,   \* the number of notify() calls on DeckManager.__notify_lock
    raised      \* the exception that ended each thread or call

deckVars == <<boards, events, prev, prevEvents, last>>
mgrVars == <<now, pcMain, pcUpdate, pcEvents, notifyLock, armed, delay, fired, notified,
             raised>>
vars == <<boards, events, snap, prev, prevEvents, last,
          now, pcMain, pcUpdate, pcEvents, notifyLock, armed, delay, fired, notified, raised>>

----------------------------------------------------------------------------
(* Bounds of the model *)

MaxBoards == 2
MaxStacks == 1
MaxCards == 1
MaxTag == 2
MaxDue == 2
\* The cards of the server the manager polls
MgrCards == 2
\* The last instant of the clock
MaxTime == 3

\* card['duedate'] is None
NoDue == 0
\* The events thread has computed no timeout
NoDelay == -1

Tags == 1..MaxTag
Dues == {NoDue} \cup (1..MaxDue)
\* deletedAt: 0, or the time of the deletion
DeletedAts == 0..1

----------------------------------------------------------------------------
(* Python dicts *)

Has(d, k) == \E i \in 1..Len(d) : d[i].id = k
Idx(d, k) == CHOOSE i \in 1..Len(d) : d[i].id = k
Get(d, k) == d[Idx(d, k)]
\* d[v.id] = v: an existing key keeps its place
Put(d, v) == IF Has(d, v.id) THEN [d EXCEPT ![Idx(d, v.id)] = v] ELSE Append(d, v)
RECURSIVE Pop(_, _)
Pop(d, k) ==
    IF d = <<>> THEN <<>>
    ELSE IF Head(d).id = k THEN Tail(d) ELSE <<Head(d)>> \o Pop(Tail(d), k)

RECURSIVE Flatten(_)
Flatten(ls) == IF ls = <<>> THEN <<>> ELSE Head(ls) \o Flatten(Tail(ls))

(* What the server holds *)

\* The entries of a list of the server that differ from e in their own fields
Retagged(e, Opts) == {o \in Opts : o.id = e.id /\ o # e}

\* list with the entry e, at its place in ascending order of id
InsertAsc(list, e) ==
    SelectSeq(list, LAMBDA x : x.id < e.id) \o <<e>> \o SelectSeq(list, LAMBDA x : x.id > e.id)

Ids(list) == {list[i].id : i \in 1..Len(list)}

\* One change of a list of at most nc cards: a card is removed, a card is
\* added, or the fields of a card change (its ETag, its deletion mark, its due time)
CardEdits(cards, nc) ==
    {Pop(cards, k) : k \in Ids(cards)}
    \cup {InsertAsc(cards, e) :
            e \in [id : (1..nc) \ Ids(cards), tag : Tags, del : {0}, due : Dues,
                   order : {0}]}
    \cup UNION {{[cards EXCEPT ![i] = e] :
                    e \in Retagged(cards[i], [id : 1..nc, tag : Tags, del : DeletedAts,
                                              due : Dues, order : {cards[i].order}])}
                : i \in 1..Len(cards)}

\* One change of a list of at most ns stacks, or of the cards of one of them
StackEdits(stacks, ns, nc) ==
    {Pop(stacks, k) : k \in Ids(stacks)}
    \cup {InsertAsc(stacks, e) :
            e \in [id : (1..ns) \ Ids(stacks), tag : Tags, del : {0}, cards : {<<>>}]}
    \cup UNION {{[stacks EXCEPT ![i] = e] :
                    e \in Retagged(stacks[i], [id : 1..ns, tag : Tags, del : DeletedAts,
                                               cards : {stacks[i].cards}])}
                : i \in 1..Len(stacks)}
    \cup UNION {{[stacks EXCEPT ![i].cards = c] : c \in CardEdits(stacks[i].cards, nc)}
                : i \in 1..Len(stacks)}

\* One change of what the server holds: at most nb boards of at most ns
\* stacks of at most nc cards
SnapEdits(s, nb, ns, nc) ==
    {Pop(s, k) : k \in Ids(s)}
    \cup {InsertAsc(s, e) :
            e \in [id : (1..nb) \ Ids(s), tag : Tags, del : {0}, stacks : {<<>>},
                   acl : {<<>>}]}
    \cup UNION {{[s EXCEPT ![i] = e] :
                    e \in Retagged(s[i], [id : 1..nb, tag : Tags, del : DeletedAts,
                                          stacks : {s[i].stacks}, acl : {s[i].acl}])}
                : i \in 1..Len(s)}
    \cup UNION {{[s EXCEPT ![i].stacks = c] : c \in StackEdits(s[i].stacks, ns, nc)}
                : i \in 1..Len(s)}

\* board['owner']['uid'], the one entry of board['users']; and the uid of a
\* principal that is in no board['users']
Owner == 1
Guest == 2

\* One change of board['acl'], the participants of the ACL of a board: an
\* entry is removed or added
AclEdits(acl) ==
    {Pop(acl, k) : k \in Ids(acl)}
    \cup {InsertAsc(acl, [id |-> u]) : u \in {Owner, Guest} \ Ids(acl)}

\* One change of the ACL of one board of the server
SnapAclEdits(s) ==
    UNION {{[s EXCEPT ![i].acl = a] : a \in AclEdits(s[i].acl)} : i \in 1..Len(s)}

(* The instances that are there when an operation starts: none of them new *)

OldCards(cards) == [i \in 1..Len(cards) |-> [cards[i] EXCEPT !.new = FALSE]]
OldStacks(stacks) ==
    [i \in 1..Len(stacks) |->
        [stacks[i] EXCEPT !.new = FALSE, !.cards = OldCards(stacks[i].cards)]]
OldAcl(acl) ==
    [i \in 1..Len(acl) |-> [acl[i] EXCEPT !.new = FALSE, !.principal.new = FALSE]]
Old(bs) ==
    [i \in 1..Len(bs) |-> [bs[i] EXCEPT !.new = FALSE, !.stacks = OldStacks(bs[i].stacks),
                                         !.users = OldCards(bs[i].users),
                                         !.acl = OldAcl(bs[i].acl)]]

----------------------------------------------------------------------------
(* DeckCard *)

\* DeckCard(...) (the cards of the model carry no attachment)
DeckCardInit(card) ==
    [id |-> card.id, new |-> TRUE, tag |-> card.tag, due |-> card.due, order |-> card.order]

\* DeckCard.update: __init__ again on the same instance; attachmentCount == 0 returns
DeckCardUpdate(self, card) == [DeckCardInit(card) EXCEPT !.new = self.new]

(* DeckStack *)

\* 'card is dict' in the comprehension of DeckStack.__init__: card is an
\* instance of dict, never the type object dict itself
CardIsDict(card) == FALSE

\* self.__cards of DeckStack.__init__
StackInitCards(stack) ==
    LET sel == SelectSeq(stack.cards, CardIsDict)
    IN [i \in 1..Len(sel) |-> DeckCardInit(sel[i])]

\* DeckStack(...)
DeckStackInit(stack) ==
    [id |-> stack.id, new |-> TRUE, tag |-> stack.tag, cards |-> StackInitCards(stack)]

\* The loop of DeckStack.update over stack['cards'], from its i-th entry on
RECURSIVE StackUpdateLoop(_, _, _)
StackUpdateLoop(cards, list, i) ==
    IF i > Len(list) THEN cards
    ELSE LET card == list[i] IN
         IF ~Has(cards, card.id)
         THEN StackUpdateLoop(Put(cards, DeckCardInit(card)), list, i + 1)
         ELSE IF Get(cards, card.id).tag # card.tag
         THEN StackUpdateLoop(Put(cards, DeckCardUpdate(Get(cards, card.id), card)),
                              list, i + 1)
         ELSE IF card.del # 0
         THEN StackUpdateLoop(Pop(cards, card.id), list, i + 1)
         ELSE StackUpdateLoop(cards, list, i + 1)

\* DeckStack.update(stack): __init__ on the same instance, then the loop.
\* A stack without the key 'cards' is a stack whose list of cards is empty:
\* __init__ has left no card to pop.
DeckStackUpdate(self, stack) ==
    LET s1 == [DeckStackInit(stack) EXCEPT !.new = self.new]
    IN [s1 EXCEPT !.cards = StackUpdateLoop(s1.cards, stack.cards, 1)]

RECURSIVE InsertByDue(_, _)
InsertByDue(sorted, c) ==
    IF sorted = <<>> THEN <<c>>
    ELSE IF c.due < Head(sorted).due THEN <<c>> \o sorted
    ELSE <<Head(sorted)>> \o InsertByDue(Tail(sorted), c)

\* sorted(..., key=lambda x: x.get_due_time()): stable
RECURSIVE SortedByDue(_)
SortedByDue(ls) ==
    IF ls = <<>> THEN <<>>
    ELSE InsertByDue(SortedByDue(SubSeq(ls, 1, Len(ls) - 1)), ls[Len(ls)])

\* d.items(): the pairs (key, value) of a dict, c[0] and c[1] of the code
DictItems(d) == [i \in 1..Len(d) |-> [key |-> d[i].id, value |-> d[i]]]

RECURSIVE InsertByOrder(_, _)
InsertByOrder(sorted, c) ==
    IF sorted = <<>> THEN <<c>>
    ELSE IF c.value.order < Head(sorted).value.order THEN <<c>> \o sorted
    ELSE <<Head(sorted)>> \o InsertByOrder(Tail(sorted), c)

\* sorted(..., key=lambda c: c[1].get_order()): stable
RECURSIVE SortedByOrder(_)
SortedByOrder(ls) ==
    IF ls = <<>> THEN <<>>
    ELSE InsertByOrder(SortedByOrder(SubSeq(ls, 1, Len(ls) - 1)), ls[Len(ls)])

\* DeckStack.get_cards(): label, assigned and deleted are None, so that no
\* entry is filtered out and no method of an entry is called before the sort
StackGetCards(stack) == SortedByOrder(DictItems(stack.cards))

\* DeckStack.get_events, at time t
StackGetEvents(stack, past, t) ==
    SortedByDue(SelectSeq(stack.cards, LAMBDA c : c.due # NoDue /\ (past \/ c.due >= t)))

(* DeckBoard *)

\* self.__stacks of DeckBoard.__init__, from the i-th stack of the answer on
RECURSIVE BoardInitStacks(_, _, _)
BoardInitStacks(acc, list, i) ==
    IF i > Len(list) THEN acc
    ELSE BoardInitStacks(Put(acc, DeckStackInit(list[i])), list, i + 1)

\* self.__users of DeckBoard.__init__: a dict of the board, with a DeckUser
\* constructed for each entry of board['users'].  by: the board in whose
\* dict the instance is; instances of different dicts are different objects
BoardInitUsers(board) == <<[id |-> Owner, new |-> TRUE, by |-> board.id]>>

\* DeckAcl(acl, users): a participant that is not in users is added to it,
\* and the principal of the entry is users[uid].  users is the dict of the
\* board, which the call changes: the result carries it
DeckAclInit(acl, users) ==
    LET pool == IF Has(users, acl.id)
                THEN users
                ELSE Put(users, [id |-> acl.id, new |-> TRUE, by |-> acl.boardId])
    IN  [users |-> pool,
         entry |-> [id |-> acl.id, new |-> TRUE, principal |-> Get(pool, acl.id)]]

\* self.__acl of DeckBoard.__init__, from the k-th entry of board['acl'] on:
\* the dict of the entries built so far, and the users they have added
RECURSIVE BoardInitAcl(_, _, _, _)
BoardInitAcl(board, users, acls, k) ==
    IF k > Len(board.acl) THEN [users |-> users, acl |-> acls]
    ELSE LET r == DeckAclInit([id |-> board.acl[k].id, boardId |-> board.id], users)
         IN BoardInitAcl(board, r.users, Put(acls, r.entry), k + 1)

\* get_user(uid) answers None
NoUser == [id |-> 0, new |-> FALSE, by |-> 0]

\* DeckBoard.get_user(uid)
BoardGetUser(board, uid) ==
    IF Has(board.users, uid) THEN Get(board.users, uid) ELSE NoUser

\* DeckBoard(...), or __init__ on an instance whose stacks were old.
\* stacksFail: the request of 'boards/<id>/stacks' raises, after the fields
\* before it are set
DeckBoardInit(old, board, stacksFail) ==
    LET a == BoardInitAcl(board, BoardInitUsers(board), <<>>, 1) IN
    IF stacksFail
    THEN [node |-> [id |-> board.id, new |-> TRUE, tag |-> board.tag, stacks |-> old,
                    users |-> a.users, acl |-> a.acl],
          err |-> "APIError"]
    ELSE [node |-> [id |-> board.id, new |-> TRUE, tag |-> board.tag,
                    stacks |-> BoardInitStacks(<<>>, board.stacks, 1),
                    users |-> a.users, acl |-> a.acl],
          err |-> "none"]

\* DeckBoard.update(board), called with its argument.  fail: which request
\* raises.  After __init__ the name api is not bound: NameError.
DeckBoardUpdate(self, snapshot, fail) ==
    IF fail = "board" \/ ~Has(snapshot, self.id)
    THEN [node |-> self, err |-> "APIError"]
    ELSE LET r == DeckBoardInit(self.stacks, Get(snapshot, self.id), fail = "stacks")
         IN [node |-> [r.node EXCEPT !.new = self.new],
             err |-> IF r.err # "none" THEN r.err ELSE "NameError"]

\* DeckBoard.get_events, at time t
BoardGetEvents(board, past, t) ==
    SortedByDue(SelectSeq(
        Flatten([i \in 1..Len(board.stacks) |-> StackGetEvents(board.stacks[i], past, t)]),
        LAMBDA c : c.due # NoDue /\ (past \/ c.due >= t)))

(* Deck *)

\* What self.__boards[board['id']].update() does: DeckBoard.update takes the
\* argument board, and the call gives none
BoardUpdateCall == "TypeError"

\* The loop of Deck.update over the answer, from its i-th board on.  failAt:
\* the board whose request for stacks raises
RECURSIVE DeckUpdateLoop(_, _, _, _)
DeckUpdateLoop(bs, list, i, failAt) ==
    IF i > Len(list) THEN [boards |-> bs, err |-> "none"]
    ELSE LET board == list[i] IN
         IF ~Has(bs, board.id)
         THEN LET r == DeckBoardInit(<<>>, board, failAt = board.id)
              IN IF r.err # "none" THEN [boards |-> bs, err |-> r.err]
                 ELSE DeckUpdateLoop(Put(bs, r.node), list, i + 1, failAt)
         ELSE IF Get(bs, board.id).tag # board.tag
         THEN [boards |-> bs, err |-> BoardUpdateCall]
         ELSE IF board.del # 0
         THEN DeckUpdateLoop(Pop(bs, board.id), list, i + 1, failAt)
         ELSE DeckUpdateLoop(bs, list, i + 1, failAt)

\* The events of the boards with past=False: the cards whose due time has
\* passed are left out
DeckEventListNotPast(bs) ==
    SortedByDue(Flatten([i \in 1..Len(bs) |-> BoardGetEvents(bs[i], FALSE, now)]))

\* self.__events of Deck.update
DeckEventList(bs) ==
    SortedByDue(Flatten([i \in 1..Len(bs) |-> BoardGetEvents(bs[i], TRUE, 0)]))

\* failAt = NoFail: no request raises; failAt = 0: the request of
\* 'boards?details=1' raises
NoFail == -1
FailAts(snapshot) == {NoFail, 0} \cup {snapshot[i].id : i \in 1..Len(snapshot)}

\* Deck.update
DeckUpdate(bs, ev, snapshot, failAt) ==
    IF failAt = 0 THEN [boards |-> bs, events |-> ev, err |-> "APIError"]
    ELSE LET r == DeckUpdateLoop(bs, snapshot, 1, failAt)
         IN [boards |-> r.boards,
             events |-> IF r.err = "none" THEN DeckEventList(r.boards) ELSE ev,
             err |-> r.err]

----------------------------------------------------------------------------
(* A Deck in the hands of a caller.  U is the universe of the server: at  *)
(* most U.nb boards of at most U.ns stacks of at most U.nc cards.  prev,  *)
(* prevEvents and last describe the last step.                            *)

Op(op, err, b, s, failed) == [op |-> op, err |-> err, b |-> b, s |-> s, failed |-> failed]

\* No DeckManager is constructed
NoManager ==
    /\ now = 0
    /\ pcMain = "none"
    /\ pcUpdate = "none"
    /\ pcEvents = "none"
    /\ notifyLock = "none"
    /\ armed = NoDue
    /\ delay = NoDelay
    /\ fired = <<>>
    /\ notified = 0
    /\ raised = [main |-> "none", update |-> "none", events |-> "none", refresh |-> "none"]

\* Deck(...): __init__ runs update() on the empty Deck, the server holding
\* one board at most; a Deck exists when it returns
DeckInit ==
    \E s \in {<<>>} \cup SnapEdits(<<>>, 1, 0, 0) :
        LET r == DeckUpdate(<<>>, <<>>, s, NoFail) IN
        /\ snap = s
        /\ boards = r.boards
        /\ events = r.events
        /\ prev = <<>>
        /\ prevEvents = <<>>
        /\ last = Op("Deck.__init__", r.err, 0, 0, FALSE)
        /\ NoManager

\* Somebody changes a board, a stack or a card on the server
ServerEdit(U) ==
    /\ snap' \in SnapEdits(snap, U.nb, U.ns, U.nc)
    /\ boards' = Old(boards)
    /\ prev' = Old(boards)
    /\ events' = OldCards(events)
    /\ prevEvents' = OldCards(events)
    /\ last' = Op("edit", "none", 0, 0, FALSE)
    /\ UNCHANGED mgrVars

\* deck.update()
Update ==
    \E failAt \in FailAts(snap) :
        LET r == DeckUpdate(Old(boards), OldCards(events), snap, failAt) IN
        /\ boards' = r.boards
        /\ events' = r.events
        /\ prev' = Old(boards)
        /\ prevEvents' = OldCards(events)
        /\ last' = Op("Deck.update", r.err, 0, 0, r.err = "APIError")
        /\ UNCHANGED <<snap, mgrVars>>

\* deck.get_board(b).update(board)
BoardUpdate ==
    \E i \in 1..Len(boards), fail \in {"none", "board", "stacks"} :
        LET r == DeckBoardUpdate(Old(boards)[i], snap, fail) IN
        /\ boards' = [Old(boards) EXCEPT ![i] = r.node]
        /\ prev' = Old(boards)
        /\ events' = OldCards(events)
        /\ prevEvents' = OldCards(events)
        /\ last' = Op("DeckBoard.update", r.err, boards[i].id, 0, r.err = "APIError")
        /\ UNCHANGED <<snap, mgrVars>>

\* deck.get_board(b).get_stack(s).update(stack), stack the server's entry of it
StackUpdate ==
    \E i \in 1..Len(boards) :
        \E j \in 1..Len(boards[i].stacks) :
            LET self == Old(boards)[i].stacks[j] IN
            /\ Has(snap, boards[i].id)
            /\ Has(Get(snap, boards[i].id).stacks, self.id)
            /\ boards' = [Old(boards) EXCEPT ![i].stacks[j] =
                            DeckStackUpdate(self, Get(Get(snap, boards[i].id).stacks, self.id))]
            /\ prev' = Old(boards)
            /\ events' = OldCards(events)
            /\ prevEvents' = OldCards(events)
            /\ last' = Op("DeckStack.update", "none", boards[i].id, self.id, FALSE)
            /\ UNCHANGED <<snap, mgrVars>>

\* Deck.update over an answer whose entry of board k lacks a required key
\* ('ETag'): the loop handles the entries before it, then board['ETag']
\* raises KeyError, in DeckBoard.__init__ for a board the Deck does not
\* hold and in the comparison of the tags for a board it holds
DeckUpdateMalformed(bs, ev, snapshot, k) ==
    LET r == DeckUpdateLoop(bs, SubSeq(snapshot, 1, Idx(snapshot, k) - 1), 1, NoFail)
    IN [boards |-> r.boards,
        events |-> ev,
        err |-> IF r.err = "none" THEN "KeyError" ELSE r.err]

\* deck.update(), the answer of the server lacking a key in one entry
UpdateMalformed ==
    \E k \in Ids(snap) :
        LET r == DeckUpdateMalformed(Old(boards), OldCards(events), snap, k) IN
        /\ boards' = r.boards
        /\ events' = r.events
        /\ prev' = Old(boards)
        /\ prevEvents' = OldCards(events)
        /\ last' = Op("Deck.update", r.err, 0, 0, FALSE)
        /\ UNCHANGED <<snap, mgrVars>>

\* One board in full depth
Deep == [nb |-> 1, ns |-> MaxStacks, nc |-> MaxCards]
\* Several boards and their stacks, holding no card
Wide == [nb |-> MaxBoards, ns |-> MaxStacks, nc |-> 0]

Init == DeckInit
Next == ServerEdit(Deep) \/ Update \/ BoardUpdate \/ StackUpdate
Spec == Init /\ [][Next]_vars

\* Several boards: what update() does to the dict of boards
WideNext == ServerEdit(Wide) \/ Update \/ UpdateMalformed
WideSpec == Init /\ [][WideNext]_vars

\* One board without stacks, and its ACL
Flat == [nb |-> 1, ns |-> 0, nc |-> 0]

\* Somebody changes the ACL of a board on the server
ServerAclEdit ==
    /\ snap' \in SnapAclEdits(snap)
    /\ boards' = Old(boards)
    /\ prev' = Old(boards)
    /\ events' = OldCards(events)
    /\ prevEvents' = OldCards(events)
    /\ last' = Op("edit", "none", 0, 0, FALSE)
    /\ UNCHANGED mgrVars

\* The principals of a board: what __init__ and update() of the board do
\* to its users and to its ACL
AclNext == ServerEdit(Flat) \/ ServerAclEdit \/ Update \/ BoardUpdate
AclSpec == Init /\ [][AclNext]_vars

----------------------------------------------------------------------------
(* DeckManager: the constructor, the two threads, and a caller of update() *)

\* Deck.get_next_event: self.__events[0]
DeckGetNextEvent(ev) ==
    IF ev = <<>> THEN [err |-> "IndexError"] ELSE [err |-> "none", card |-> ev[1]]

\* self.__deck.download(): Deck has no attribute download
DeckDownload == "AttributeError"

\* self.__deck.next_event: Deck has no attribute next_event
DeckNextEventAttr == "AttributeError"

\* Condition.notify() by a thread that does not hold the lock
NotifyUnowned == "RuntimeError"

\* The server of the manager: one board, one stack, and the cards
MgrServer(cards) ==
    LET stack == [id |-> 1, tag |-> 1, del |-> 0, cards |-> cards]
        board == [id |-> 1, tag |-> 1, del |-> 0, stacks |-> << stack >>, acl |-> <<>>]
    IN  << board >>

\* The changes of the cards that leave every ETag at 1 (the ETag of a card is
\* compared by DeckStack.update only, after __init__ has emptied the cards)
CardsEdits(cards) ==
    {c \in CardEdits(cards, MgrCards) : \A n \in 1..Len(c) : c[n].tag = 1}

MgrInit ==
    /\ \E c \in {<<>>} \cup CardsEdits(<<>>) : snap = MgrServer(c)
    /\ boards = <<>>
    /\ events = <<>>
    /\ prev = <<>>
    /\ prevEvents = <<>>
    /\ last = Op("none", "none", 0, 0, FALSE)
    /\ now \in 0..1
    /\ pcMain = "new"
    /\ pcUpdate = "none"
    /\ pcEvents = "none"
    /\ notifyLock = "none"
    /\ armed = NoDue
    /\ delay = NoDelay
    /\ fired = <<>>
    /\ notified = 0
    /\ raised = [main |-> "none", update |-> "none", events |-> "none", refresh |-> "none"]

\* Somebody changes a card on the server
MgrServerEdit ==
    /\ \E c \in CardsEdits(snap[1].stacks[1].cards) : snap' = MgrServer(c)
    /\ UNCHANGED <<deckVars, mgrVars>>

\* Time passes
Tick ==
    /\ now < MaxTime
    /\ now' = now + 1
    /\ UNCHANGED <<deckVars, snap, pcMain, pcUpdate, pcEvents, notifyLock, armed, delay, fired,
                   notified, raised>>

\* DeckManager.__init__, line 11: self.__deck = Deck(...); then the locks and
\* the Thread objects
MgrDeck ==
    /\ pcMain = "new"
    /\ \E failAt \in FailAts(snap) :
        LET r == DeckUpdate(<<>>, <<>>, snap, failAt) IN
        /\ boards' = r.boards
        /\ events' = r.events
        /\ prev' = <<>>
        /\ prevEvents' = <<>>
        /\ last' = Op("Deck.__init__", r.err, 0, 0, r.err = "APIError")
        /\ pcMain' = IF r.err = "none" THEN "deck" ELSE "failed"
        /\ raised' = [raised EXCEPT !.main = r.err]
    /\ UNCHANGED <<snap, now, pcUpdate, pcEvents, notifyLock, armed, delay, fired, notified>>

\* self.__update_thread.start() moved before line 11: the thread is
\* started whether or not the Deck is constructed
MgrStartUpdateFirst ==
    /\ pcMain \in {"new", "deck"}
    /\ pcUpdate = "none"
    /\ pcMain' = IF pcMain = "deck" THEN "started" ELSE pcMain
    /\ pcUpdate' = "start"
    /\ UNCHANGED <<deckVars, snap, now, pcEvents, notifyLock, armed, delay, fired, notified,
                   raised>>

\* line 23: self.__update_thread.start()
MgrStartUpdate ==
    /\ pcMain = "deck"
    /\ pcMain' = "started"
    /\ pcUpdate' = "start"
    /\ UNCHANGED <<deckVars, snap, now, pcEvents, notifyLock, armed, delay, fired, notified, raised>>

\* line 24: self.__events_thread.start()
MgrStartEvents ==
    /\ pcMain = "started"
    /\ pcMain' = "done"
    /\ pcEvents' = "start"
    /\ UNCHANGED <<deckVars, snap, now, pcUpdate, notifyLock, armed, delay, fired, notified, raised>>

\* DeckManager.update(), from the thread of the caller: notify() on a
\* Condition the caller does not hold
Refresh ==
    /\ pcMain = "done"
    /\ raised' = [raised EXCEPT !.refresh = NotifyUnowned]
    /\ UNCHANGED <<deckVars, snap, now, pcMain, pcUpdate, pcEvents, notifyLock, armed, delay, fired, notified>>

\* __update, lines 30-35: acquire the update lock and wait(cooldown)
UpdateAcquire ==
    /\ pcUpdate = "start"
    /\ pcUpdate' = "waiting"
    /\ UNCHANGED <<deckVars, snap, now, pcMain, pcEvents, notifyLock, armed, delay, fired, notified, raised>>

\* The wait of line 35 without its timeout: it ends by a notify() on the
\* update lock only, and no call of DeckManager.update() gets to notify
UpdateWakeNotified ==
    /\ pcUpdate = "waiting"
    /\ raised.refresh = "notified"
    /\ pcUpdate' = "dead"
    /\ raised' = [raised EXCEPT !.update =
                    IF DeckGetNextEvent(events).err # "none"
                    THEN DeckGetNextEvent(events).err ELSE DeckDownload]
    /\ UNCHANGED <<deckVars, snap, now, pcMain, pcEvents, notifyLock, armed, delay, fired, notified>>

\* __update, lines 35-40: the wait times out; get_next_event() raises on an
\* empty list of events, and download() raises otherwise
UpdateWake ==
    /\ pcUpdate = "waiting"
    /\ pcUpdate' = "dead"
    /\ raised' = [raised EXCEPT !.update =
                    IF DeckGetNextEvent(events).err # "none"
                    THEN DeckGetNextEvent(events).err ELSE DeckDownload]
    /\ UNCHANGED <<deckVars, snap, now, pcMain, pcEvents, notifyLock, armed, delay, fired, notified>>

\* __events, line 52: acquire the notify lock
EventsAcquire ==
    /\ pcEvents = "start"
    /\ notifyLock = "none"
    /\ notifyLock' = "events"
    /\ pcEvents' = "loop"
    /\ UNCHANGED <<deckVars, snap, now, pcMain, pcUpdate, armed, delay, fired, notified, raised>>

\* __events, lines 54-55: the first evaluation of self.__deck.next_event
\* raises; the thread ends holding the notify lock
EventsEval ==
    /\ pcEvents = "loop"
    /\ pcEvents' = "dead"
    /\ raised' = [raised EXCEPT !.events = DeckNextEventAttr]
    /\ UNCHANGED <<deckVars, snap, now, pcMain, pcUpdate, notifyLock, armed, delay, fired, notified>>

MgrNext ==
    \/ MgrServerEdit
    \/ Tick
    \/ MgrDeck
    \/ MgrStartUpdate
    \/ MgrStartEvents
    \/ Refresh
    \/ UpdateAcquire
    \/ UpdateWake
    \/ EventsAcquire
    \/ EventsEval

MgrSpec == MgrInit /\ [][MgrNext]_vars

\* The constructor and the threads are scheduled fairly; the server, the
\* clock and the caller of update() are free
MgrFairSpec ==
    /\ MgrSpec
    /\ WF_vars(MgrDeck)
    /\ WF_vars(MgrStartUpdate)
    /\ WF_vars(MgrStartEvents)
    /\ WF_vars(UpdateAcquire)
    /\ WF_vars(UpdateWake)
    /\ WF_vars(EventsAcquire)
    /\ WF_vars(EventsEval)

----------------------------------------------------------------------------
(* A Deck in the hands of a caller, over the server of the manager and with *)
(* the clock running: several cards with due times in one stack            *)

\* Deck(...), the server holding at most one card
CardsInit ==
    /\ \E c \in {<<>>} \cup CardsEdits(<<>>) : snap = MgrServer(c)
    /\ LET r == DeckUpdate(<<>>, <<>>, snap, NoFail) IN
        /\ boards = r.boards
        /\ events = r.events
        /\ last = Op("Deck.__init__", r.err, 0, 0, FALSE)
    /\ prev = <<>>
    /\ prevEvents = <<>>
    /\ NoManager

\* Somebody changes a card on the server
CardsServerEdit ==
    /\ \E c \in CardsEdits(snap[1].stacks[1].cards) : snap' = MgrServer(c)
    /\ boards' = Old(boards)
    /\ prev' = Old(boards)
    /\ events' = OldCards(events)
    /\ prevEvents' = OldCards(events)
    /\ last' = Op("edit", "none", 0, 0, FALSE)
    /\ UNCHANGED mgrVars

\* DeckStack.update(stack) over an answer in which the 'duedate' of card k
\* is a string that strptime does not parse: __init__ on the same instance,
\* the loop over the cards before k, then ValueError out of DeckCard(...)
DeckStackUpdateBadDue(self, stack, k) ==
    LET s1 == [DeckStackInit(stack) EXCEPT !.new = self.new]
        before == SubSeq(stack.cards, 1, Idx(stack.cards, k) - 1)
    IN [node |-> [s1 EXCEPT !.cards = StackUpdateLoop(s1.cards, before, 1)],
        err |-> "ValueError"]

\* deck.get_board(b).get_stack(s).update(stack), the due time of one card
\* of the answer not parsing
StackUpdateBadDue ==
    \E i \in 1..Len(boards) :
        \E j \in 1..Len(boards[i].stacks) :
            LET self == Old(boards)[i].stacks[j] IN
            /\ Has(snap, boards[i].id)
            /\ Has(Get(snap, boards[i].id).stacks, self.id)
            /\ LET stack == Get(Get(snap, boards[i].id).stacks, self.id) IN
               \E k \in {c.id : c \in {stack.cards[n] : n \in 1..Len(stack.cards)}} :
                LET r == DeckStackUpdateBadDue(self, stack, k) IN
                /\ Get(stack.cards, k).due # NoDue
                /\ boards' = [Old(boards) EXCEPT ![i].stacks[j] = r.node]
                /\ last' = Op("DeckStack.update", r.err, boards[i].id, self.id, FALSE)
            /\ prev' = Old(boards)
            /\ events' = OldCards(events)
            /\ prevEvents' = OldCards(events)
            /\ UNCHANGED <<snap, mgrVars>>

\* The order indexes of the cards of the server
MaxOrder == 1

\* One change of the cards of the server, none of them with a due time: a
\* change of CardsEdits, or another order index for one card
ListEdits(cards) ==
    {c \in CardsEdits(cards) : \A n \in 1..Len(c) : c[n].due = NoDue}
    \cup UNION {{[cards EXCEPT ![i].order = o] : o \in (0..MaxOrder) \ {cards[i].order}}
                : i \in 1..Len(cards)}

\* Somebody changes a card, or the order index of a card, on the server
ListServerEdit ==
    /\ \E c \in ListEdits(snap[1].stacks[1].cards) : snap' = MgrServer(c)
    /\ boards' = Old(boards)
    /\ prev' = Old(boards)
    /\ events' = OldCards(events)
    /\ prevEvents' = OldCards(events)
    /\ last' = Op("edit", "none", 0, 0, FALSE)
    /\ UNCHANGED mgrVars

\* Deck(...), the server holding its board and its stack without a card
ListInit ==
    /\ snap = MgrServer(<<>>)
    /\ LET r == DeckUpdate(<<>>, <<>>, snap, NoFail) IN
        /\ boards = r.boards
        /\ events = r.events
        /\ last = Op("Deck.__init__", r.err, 0, 0, FALSE)
    /\ prev = <<>>
    /\ prevEvents = <<>>
    /\ NoManager

\* The cards of a stack and their order indexes
ListNext == ListServerEdit \/ Update \/ StackUpdate
ListSpec == ListInit /\ [][ListNext]_vars

CardsNext == CardsServerEdit \/ Update \/ StackUpdate \/ StackUpdateBadDue \/ Tick

CardsSpec == CardsInit /\ [][CardsNext]_vars

----------------------------------------------------------------------------
(* The timeout of the events thread, lines 56-59 of DeckManager.__events,  *)
(* for a next event and a clock given in seconds                           *)

\* The seconds of a day: timedelta keeps days, seconds and microseconds
Day == 86400
\* The days the clock and the due times reach
MaxDays == 2

\* The instants of the clock and of the due times, in seconds
Instants == {d * Day + sec : d \in 0..MaxDays, sec \in {0, 1, Day - 1}}

\* timedelta.seconds of a difference of diff seconds: the normalised
\* timedelta has 0 <= seconds < 86400, the rest is in its days
TimedeltaSeconds(diff) == diff % Day

\* line 57: (next_event.card_due_time - datetime.now(timezone.utc)).seconds
EventsDelay(due, t) == TimedeltaSeconds(due - t)

\* The events thread holds the notify lock and has a next event, due at
\* armed, at the time now
DelayInit ==
    /\ snap = <<>>
    /\ boards = <<>>
    /\ events = <<>>
    /\ prev = <<>>
    /\ prevEvents = <<>>
    /\ last = Op("none", "none", 0, 0, FALSE)
    /\ now \in Instants
    /\ pcMain = "done"
    /\ pcUpdate = "waiting"
    /\ pcEvents = "loop"
    /\ notifyLock = "events"
    /\ armed \in Instants
    /\ delay = NoDelay
    /\ fired = <<>>
    /\ notified = 0
    /\ raised = [main |-> "none", update |-> "none", events |-> "none", refresh |-> "none"]

\* lines 56-59: the delay is computed and the thread waits on the notify
\* lock with it
EventsWait ==
    /\ pcEvents = "loop"
    /\ delay' = EventsDelay(armed, now)
    /\ pcEvents' = "waiting"
    /\ notifyLock' = "none"
    /\ UNCHANGED <<deckVars, snap, now, pcMain, pcUpdate, armed, fired, notified, raised>>

DelayNext == EventsWait
DelaySpec == DelayInit /\ [][DelayNext]_vars

----------------------------------------------------------------------------
(* The properties *)

\* The last step was a pass of Deck.update that returned
Reconciled == last.op = "Deck.update" /\ last.err = "none"

\* The server lists card c with the due time d, and neither the card nor its
\* stack nor its board carries a deletion mark
Listed(c, d) ==
    \E i \in 1..Len(snap) : \E j \in 1..Len(snap[i].stacks) :
        \E k \in 1..Len(snap[i].stacks[j].cards) :
            LET card == snap[i].stacks[j].cards[k] IN
            /\ snap[i].del = 0
            /\ snap[i].stacks[j].del = 0
            /\ card.del = 0
            /\ card.id = c
            /\ card.due = d

\* The server reports card c deleted: absent, or deletion-marked
Deleted(c) == \A d \in Dues : ~Listed(c, d)

\* The callback was called with card c
Fired(c) == \E k \in 1..Len(fired) : fired[k] = c

\* C1: Deadline correctness.  Card 1 is due at 1 and card 2 at 2, both in
\* the future, and the manager runs; from some moment before 1 on the server
\* reports card 1 deleted and card 2 still due at 2.  Then the events thread
\* comes to wait for the due time 2, and the callback is never called with
\* card 1.
C1_DeadlineCorrectness ==
    (/\ <>(Listed(1, 1) /\ Listed(2, 2) /\ now < 1)
     /\ <>(pcMain = "done")
     /\ <>[](Deleted(1) /\ Listed(2, 2) /\ now < 1))
    => (<>(armed = 2) /\ [](~Fired(1)))

\* C2: ARMED -> FIRED.  Card 1 is due at 1, in the future, the manager runs
\* before that time and the server keeps the card as it is; once the clock
\* reaches 1 the callback is eventually called with card 1.
C2_ArmedToFired ==
    (/\ now < 1
     /\ [](Listed(1, 1))
     /\ <>(pcMain = "done" /\ now < 1)
     /\ <>(now >= 1))
    => <>Fired(1)

\* C4: Immediate fire.  The due time of card 1, the first of the events, is
\* past when the manager starts; the events thread calls the callback with
\* card 1 and never waits for that due time.
C4_ImmediateFire ==
    (/\ now >= 1
     /\ [](Listed(1, 1))
     /\ <>(pcMain = "done"))
    => (<>Fired(1) /\ [](armed # 1))

\* C5: Idempotence.  A pass of Deck.update that follows a pass over the same
\* answer of the server (both returning) leaves the tree and the events as
\* they were: no board added, updated or removed, no instance replaced.
C5_Idempotence ==
    [][(/\ last.op \in {"Deck.__init__", "Deck.update"}
        /\ last.err = "none"
        /\ last'.op = "Deck.update"
        /\ last'.err = "none"
        /\ snap' = snap)
       => (boards' = Old(boards) /\ events' = OldCards(events))]_vars

\* C6: Identity preservation.  After an update that returned (Deck.update,
\* DeckStack.update), a board, stack or card that was in the tree before
\* with the tag it has now is the instance it was, whatever the tag of its
\* parent.
C6_IdentityPreserved ==
    (last.op \in {"Deck.update", "DeckStack.update"} /\ last.err = "none") =>
        \A i \in 1..Len(boards) :
            LET b == boards[i] IN
            Has(prev, b.id) =>
                /\ Get(prev, b.id).tag = b.tag => ~b.new
                /\ \A j \in 1..Len(b.stacks) :
                    LET s == b.stacks[j]
                        ps == Get(prev, b.id).stacks
                    IN Has(ps, s.id) =>
                        /\ Get(ps, s.id).tag = s.tag => ~s.new
                        /\ \A k \in 1..Len(s.cards) :
                            LET c == s.cards[k]
                                pc == Get(ps, s.id).cards
                            IN (Has(pc, c.id) /\ Get(pc, c.id).tag = c.tag) => ~c.new

\* C7: Children are reconciled under an unchanged parent.  After a pass of
\* Deck.update that returned, a card of the tree whose board and stack have
\* in the answer the tags they have in the tree, no deletion mark on any of
\* the three, carries the tag and the due time of the answer, and so does
\* its entry in the events.
C7_ChildrenReconciled ==
    Reconciled =>
        \A i \in 1..Len(boards) : \A j \in 1..Len(boards[i].stacks) :
            \A k \in 1..Len(boards[i].stacks[j].cards) :
                LET b == boards[i]
                    s == b.stacks[j]
                    c == s.cards[k]
                IN (/\ Has(snap, b.id) /\ Get(snap, b.id).tag = b.tag
                    /\ Get(snap, b.id).del = 0
                    /\ Has(Get(snap, b.id).stacks, s.id)
                    /\ Get(Get(snap, b.id).stacks, s.id).tag = s.tag
                    /\ Get(Get(snap, b.id).stacks, s.id).del = 0
                    /\ Has(Get(Get(snap, b.id).stacks, s.id).cards, c.id)
                    /\ Get(Get(Get(snap, b.id).stacks, s.id).cards, c.id).del = 0)
                   => LET n == Get(Get(Get(snap, b.id).stacks, s.id).cards, c.id)
                      IN /\ c.tag = n.tag
                         /\ c.due = n.due
                         /\ n.due # NoDue =>
                                \E e \in 1..Len(events) :
                                    events[e].id = c.id /\ events[e].due = n.due

\* C8: Removal on absence.  After a pass of Deck.update that returned, a
\* board, stack or card that was in the tree and whose id the answer does
\* not list is not in the tree.
C8_RemovedWhenAbsent ==
    Reconciled =>
        \A i \in 1..Len(boards) :
            LET b == boards[i] IN
            Has(prev, b.id) =>
                /\ Has(snap, b.id)
                /\ \A j \in 1..Len(b.stacks) :
                    LET s == b.stacks[j]
                        ps == Get(prev, b.id).stacks
                    IN Has(ps, s.id) =>
                        /\ Has(Get(snap, b.id).stacks, s.id)
                        /\ \A k \in 1..Len(s.cards) :
                            Has(Get(ps, s.id).cards, s.cards[k].id) =>
                                Has(Get(Get(snap, b.id).stacks, s.id).cards, s.cards[k].id)

\* C9: Deletion cascade.  After a pass of Deck.update that returned, a stack
\* of a listed board that the answer does not list has left no card in the
\* tree and no card in the events.
C9_DeletionCascade ==
    Reconciled =>
        \A i \in 1..Len(prev) : \A j \in 1..Len(prev[i].stacks) :
            LET b == prev[i]
                s == b.stacks[j]
            IN (Has(snap, b.id) /\ ~Has(Get(snap, b.id).stacks, s.id)) =>
                /\ Has(boards, b.id) /\ Has(Get(boards, b.id).stacks, s.id)
                    => Get(Get(boards, b.id).stacks, s.id).cards = <<>>
                /\ \A k \in 1..Len(s.cards) : \A e \in 1..Len(events) :
                    OldCards(events)[e] # s.cards[k]

\* C10: Fetch failure.  After a pass of Deck.update in which a request
\* raised, the tree and the events are what they were before the pass.
C10_FetchFailureKeepsTree ==
    (last.op = "Deck.update" /\ last.err = "APIError") =>
        (boards = prev /\ events = prevEvents)

\* C11: Fetch failure is recovered at the poller.  Whatever a poll cycle
\* meets, the update thread of a constructed manager is still running and
\* comes back to its timed wait, again and again.
C11_PollerRecovers ==
    <>(pcMain = "done") => []<>(pcUpdate = "waiting")

\* C12: Malformed snapshot.  After a pass of Deck.update that failed on an
\* entry lacking a required key, the tree and the events are what they were
\* before the pass, also when earlier entries of the answer differed from
\* the tree.
C12_MalformedKeepsTree ==
    (last.op = "Deck.update" /\ last.err = "KeyError") =>
        (boards = prev /\ events = prevEvents)

\* The cards of the tree, of every board and stack
TreeCards(bs) ==
    UNION {UNION {{bs[i].stacks[j].cards[k] : k \in 1..Len(bs[i].stacks[j].cards)}
                  : j \in 1..Len(bs[i].stacks)}
           : i \in 1..Len(bs)}

\* The cards of the tree whose due time is not past at time t
FutureDue(bs, t) == {c \in TreeCards(bs) : c.due # NoDue /\ c.due >= t}

\* C13: Next-due selection.  When a pass of Deck.update returns, the card
\* that get_next_event() gives has a due time, not past, the earliest of the
\* due times of the tree that are not past, and the least id among the cards
\* of that due time.
C13_NextDueSelection ==
    [][(/\ last'.op = "Deck.update"
        /\ last'.err = "none"
        /\ now' = now
        /\ DeckGetNextEvent(events').err = "none")
       => LET c == DeckGetNextEvent(events').card IN
          /\ c.due # NoDue
          /\ c.due >= now'
          /\ \A d \in FutureDue(boards', now') :
                c.due < d.due \/ (c.due = d.due /\ c.id <= d.id)]_vars

\* C14: The next-due accessor on a tree without due card.  get_next_event()
\* gives no item and does not raise, so that the update thread goes on past
\* it when the Deck holds no event.
C14_NextEventOnEmpty ==
    events = <<>> => raised.update # "IndexError"

\* C17: Explicit refresh.  DeckManager.update(), called from the thread of
\* the caller while the update thread is in its timed wait, returns without
\* raising.
C17_RefreshReturns ==
    [][pcUpdate = "waiting" => raised'.refresh = "none"]_vars

\* C20: Invalid due time.  A DeckStack.update returns also when the due time
\* of a card of the answer does not parse, and every card the answer lists
\* is then in the stack.
C20_InvalidDueIsLocal ==
    last.op = "DeckStack.update" =>
        /\ last.err = "none"
        /\ LET stack == Get(Get(snap, last.b).stacks, last.s)
               self == Get(Get(boards, last.b).stacks, last.s)
           IN \A n \in 1..Len(stack.cards) : Has(self.cards, stack.cards[n].id)

\* C15: Principal interning.  Two references to one uid, in the same board
\* or in two boards of the tree, are references to one DeckUser instance.
C15_PrincipalsInterned ==
    \A i, j \in 1..Len(boards) :
        \A u \in 1..Len(boards[i].users) : \A v \in 1..Len(boards[j].users) :
            boards[i].users[u].id = boards[j].users[v].id
                => boards[i].users[u].by = boards[j].users[v].by

\* C16: The change signal.  The manager runs while the server does not list
\* card 1; from some moment on the server lists card 1, due at 1, for good.
\* A poll cycle then adds the card to the tree, and the cycle that changes
\* the tree notifies the events thread.
C16_ChangeSignalled ==
    (/\ <>(pcMain = "done" /\ Deleted(1))
     /\ <>[]Listed(1, 1))
    => <>(notified > 0)

\* The server lists no card with a due time
NoneDue == \A c \in 1..MgrCards : \A d \in 1..MaxDue : ~Listed(c, d)

\* C21: ARMED -> IDLE.  The manager runs before time 1 with card 1 due at 1;
\* from some moment before 1 on, the server lists no due card (the card was
\* deleted, or its due time cleared).  Then the events thread ends up in the
\* wait without timeout, waiting for no due time, and the callback is never
\* called with card 1.
C21_ArmedToIdle ==
    (/\ <>(pcMain = "done" /\ Listed(1, 1) /\ now < 1)
     /\ <>[](NoneDue /\ now < 1))
    => (<>[](pcEvents = "waiting" /\ armed = NoDue) /\ [](~Fired(1)))

\* C22: Re-arm trigger.  The manager runs before time 1 with card 1, due at
\* 1, the only due card; from some moment before 1 on, card 1 is deleted and
\* card 2 is due at that same time 1.  The next due item is another one, so
\* a poll cycle notifies the events thread.
C22_RearmOnOtherItem ==
    (/\ <>(pcMain = "done" /\ Listed(1, 1) /\ Deleted(2) /\ now < 1)
     /\ <>[](Deleted(1) /\ Listed(2, 1) /\ now < 1))
    => <>(notified > 0)

\* C27: FIRED -> (IDLE|ARMED).  The manager runs before time 1; from some
\* moment on card 1 is due at 1 and card 2 at 2, and the clock rests at 2.  The
\* callback is called with card 1, the events thread then takes card 2 as
\* its next item, and the callback is called with card 2.
C27_FiredThenNext ==
    (/\ <>(pcMain = "done" /\ now < 1)
     /\ <>[](Listed(1, 1) /\ Listed(2, 2) /\ now = 2))
    => <>(Fired(1) /\ <>Fired(2))

\* C29: The worker loops run for the lifetime of the process.  Neither the
\* update thread nor the events thread has left its loop.
C29_WorkersNeverEnd == pcUpdate # "dead" /\ pcEvents # "dead"

\* C23: Removal on deletion marker.  After a pass of Deck.update that
\* returned, no board, stack or card of the tree is listed by the server with
\* a nonzero deletedAt, whether it was in the tree before the pass or not.
C23_DeletionMarkedRemoved ==
    Reconciled =>
        \A i \in 1..Len(boards) :
            LET b == boards[i] IN
            Has(snap, b.id) =>
                /\ Get(snap, b.id).del = 0
                /\ \A j \in 1..Len(b.stacks) :
                    LET s == b.stacks[j]
                        ss == Get(snap, b.id).stacks
                    IN Has(ss, s.id) =>
                        /\ Get(ss, s.id).del = 0
                        /\ \A k \in 1..Len(s.cards) :
                            Has(Get(ss, s.id).cards, s.cards[k].id) =>
                                Get(Get(ss, s.id).cards, s.cards[k].id).del = 0

\* C24: Insertion brings the whole subtree.  After a pass of Deck.update
\* that returned, a board the pass has inserted holds every stack the server
\* lists under it without a deletion mark, and each of these stacks holds
\* every card listed under it without a deletion mark.
C24_InsertedWithSubtree ==
    Reconciled =>
        \A i \in 1..Len(boards) :
            LET b == boards[i] IN
            (b.new /\ ~Has(prev, b.id) /\ Has(snap, b.id)) =>
                \A j \in 1..Len(Get(snap, b.id).stacks) :
                    LET stack == Get(snap, b.id).stacks[j] IN
                    stack.del = 0 =>
                        /\ Has(b.stacks, stack.id)
                        /\ \A k \in 1..Len(stack.cards) :
                            stack.cards[k].del = 0 =>
                                Has(Get(b.stacks, stack.id).cards, stack.cards[k].id)

\* C25: The principals are merged into, never replaced.  After any step, a
\* uid that a board of the tree resolved before the step resolves to the
\* DeckUser instance it resolved to, the step being DeckBoard.update on a
\* board whose ETag changed included.
C25_PrincipalsKept ==
    \A i \in 1..Len(boards) :
        LET b == boards[i] IN
        (Has(prev, b.id) /\ ~b.new) =>
            \A u \in 1..Len(b.users) :
                Has(Get(prev, b.id).users, b.users[u].id) => ~b.users[u].new

\* C26: A principal of the ACL only.  In every board of the tree, the
\* participant of each ACL entry is in the users of the board, the principal
\* of the entry is that instance, and get_user(uid) returns it; and while
\* the board is in the tree, every uid its users held before a step is
\* still in its users after the step.
C26_AclPrincipalPooled ==
    \A i \in 1..Len(boards) :
        LET b == boards[i] IN
        /\ \A k \in 1..Len(b.acl) :
            /\ Has(b.users, b.acl[k].id)
            /\ Get(b.users, b.acl[k].id) = b.acl[k].principal
            /\ BoardGetUser(b, b.acl[k].id) = b.acl[k].principal
        /\ (Has(prev, b.id) /\ ~b.new) =>
            \A u \in 1..Len(Get(prev, b.id).users) :
                Has(b.users, Get(prev, b.id).users[u].id)

C31_CardsInOrder ==
    \A i \in 1..Len(boards) : \A j \in 1..Len(boards[i].stacks) :
        LET stack == boards[i].stacks[j]
            res == StackGetCards(stack)
        IN  /\ Len(res) = Len(stack.cards)
            /\ \A k \in 1..Len(res) : \E n \in 1..Len(stack.cards) : res[k] = stack.cards[n]
            /\ \A k, l \in 1..Len(res) :
                k < l =>
                    \/ res[k].order < res[l].order
                    \/ /\ res[k].order = res[l].order
                       /\ Idx(stack.cards, res[k].id) < Idx(stack.cards, res[l].id)

\* C33: The signalling step of the update thread completes.  Whenever the
\* update thread has left its wait(cooldown) for a poll cycle, the cycle
\* ends and the thread is in its wait(cooldown) again.
C33_PollCycleEnds ==
    (pcUpdate \notin {"none", "start", "waiting"}) ~> (pcUpdate = "waiting")

DueCards(bs) == {c \in TreeCards(bs) : c.due # NoDue}

\* C36: The event list.  After Deck(...) or Deck.update has returned, the
\* events are in ascending order of due time, each of them is a card of the
\* tree with a due time, every card of the tree with a due time is among
\* them once, and get_next_event() returns the first of them.
C36_EventListOfTree ==
    (last.op \in {"Deck.__init__", "Deck.update"} /\ last.err = "none") =>
        /\ \A k, l \in 1..Len(events) : k < l => events[k].due <= events[l].due
        /\ \A k \in 1..Len(events) : events[k] \in DueCards(boards)
        /\ \A c \in DueCards(boards) : \E k \in 1..Len(events) : events[k] = c
        /\ Len(events) = Cardinality(DueCards(boards))
        /\ events # <<>> =>
            /\ DeckGetNextEvent(events).err = "none"
            /\ DeckGetNextEvent(events).card = events[1]

\* A pass of Deck.update has returned with two events, the stack holding
\* them in the other order, and the due time of the first is past
C36_TwoEventsSorted ==
    /\ last.op = "Deck.update"
    /\ last.err = "none"
    /\ Len(events) = 2
    /\ events[1].due < events[2].due
    /\ events[1].due < now
    /\ boards[1].stacks[1].cards[1] = events[2]

\* C37: Start-up ordering.  A thread of the manager is started only after
\* Deck(...) has returned from its first pass, the events thread only after
\* the update thread; and once the events thread has evaluated the next
\* event for the first time, the Deck it read had completed a pass.
C37_StartupOrdering ==
    /\ (pcUpdate # "none" \/ pcEvents # "none") =>
        /\ pcMain \in {"started", "done"}
        /\ last.op = "Deck.__init__"
        /\ last.err = "none"
        /\ raised.main = "none"
    /\ pcEvents # "none" => (pcUpdate # "none" /\ pcMain = "done")
    /\ pcMain \in {"new", "failed"} => (pcUpdate = "none" /\ pcEvents = "none")

\* The events thread has made its first evaluation of the next event, on a
\* Deck whose first pass has returned
C37_EventsEvaluated ==
    /\ pcEvents = "dead"
    /\ raised.events # "none"
    /\ last.op = "Deck.__init__"
    /\ last.err = "none"
    /\ boards # <<>>

====
